---- MODULE Spec2Model ----
(***************************************************************************)
(* Cross-store "comprehensive" researcher operations of the Research       *)
(* Collaboration System: the write-through orchestrator                    *)
(* (database_manager.py), the cache-aside profile read (query_engine.py)   *)
(* and the three repositories they drive (mongo_repo.py, neo4j_repo.py,    *)
(* redis_repo.py).                                                         *)
(*                                                                         *)
(* Every operation is one atomic step here (no two operations overlap).    *)
(* A store is reachable or not for the whole of one operation; the         *)
(* repositories turn an unreachable store into the return value their      *)
(* except-branch produces.                                                 *)
(***************************************************************************)
EXTENDS Integers, FiniteSets, Sequences, TLC

\* ------------------------------------------------------------------ bounds
\* Node handles the graph store may allocate.
MaxNodes == 3
\* Steps (operations, expiries, store failures) in one history over every
\* operation and input.
MaxSteps == 3
\* Steps in one history with the graph store unreachable throughout.
MaxDownSteps == 4
MaxSectionSteps == 4
MaxAnalyticsSteps == 3
MaxSearchSteps == 2
\* Store accesses in a history of calls running step by step.
MaxRaceSteps == 7
\* Steps in a history of add_collaboration calls running step by step.
MaxAddSteps == 5
\* Steps in a history with an update that stops half way.
MaxCrashSteps == 5
\* Searches with numeric range bounds in one history.
MaxRangeSteps == 1
\* Sorted searches in one history.
MaxSortSteps == 1
\* Operations in one history with every store reachable.
MaxSequentialSteps == 3

\* ------------------------------------------------------------ identifiers
\* uuid4-shaped strings (36 characters) and 24-character hexadecimal strings.
UuidIds == {"u1", "u2"}
HexIds == {"h1"}
Ids == UuidIds \cup HexIds
NoId == "none"
\* The _id values a caller of create hands in (NoId: none, uuid4 generates one).
SuppliedIds == {"u1", "h1"}

\* mongo_repo.py:79  isinstance(researcher_id, str) and len(researcher_id) == 24,
\* and ObjectId(researcher_id) not raising.
LooksLikeObjectId(id) == id \in HexIds

\* ------------------------------------------------------------- documents
\* A researcher document, flattened to its leaves.  "absent" is a key that is
\* not in the dict; every other value is an opaque JSON scalar / list.
Absent == "absent"
PersonalLeaves == {"first_name", "last_name", "email"}
AcademicLeaves == {"department_id", "position"}
MetricLeaves == {"h_index", "total_publications", "collaboration_score"}
BaseLeaves == PersonalLeaves \cup AcademicLeaves \cup MetricLeaves \cup {"research_interests"}
Leaves == BaseLeaves \cup {"metadata"}

SectionOf(l) ==
    IF l \in PersonalLeaves THEN "personal_info"
    ELSE IF l \in AcademicLeaves THEN "academic_profile"
    ELSE IF l \in MetricLeaves THEN "collaboration_metrics"
    ELSE l

EmptyDoc == [l \in Leaves |-> Absent]

\* 'collaboration_metrics' in researcher_data  (a section is present when it
\* holds a leaf; the entities below never carry an empty section).
HasSection(d, s) == \E l \in Leaves : SectionOf(l) = s /\ d[l] # Absent

\* Entities handed to create_researcher_comprehensive.
EntityFull == [l \in Leaves |-> IF l = "metadata" THEN Absent ELSE "v1"]
EntityNoMetrics == [l \in Leaves |-> IF l \in MetricLeaves \cup {"metadata"} THEN Absent ELSE "v1"]
EntityPartialMetrics == [EntityFull EXCEPT !["collaboration_score"] = Absent]
Entities == {EntityFull, EntityNoMetrics, EntityPartialMetrics}

\* update_data: "dot" holds the dot-path keys ("academic_profile.position"),
\* "sections" the nested keys ("academic_profile": {...}) and "nested" the
\* leaves those nested dicts carry.
NoUpdate == [sections |-> {}, nested |-> EmptyDoc, dot |-> EmptyDoc]
DotUpdate(l, v) == [NoUpdate EXCEPT !.dot = [EmptyDoc EXCEPT ![l] = v]]
\* web_interface.py:460-471  personal_info and academic_profile, nested.
FormUpdate(v) ==
    [sections |-> {"personal_info", "academic_profile"},
     nested |-> [l \in Leaves |-> IF l \in PersonalLeaves \cup AcademicLeaves THEN v ELSE Absent],
     dot |-> EmptyDoc]
\* database_manager.py:130-141  a nested collaboration_metrics block.
MetricsUpdate(v) ==
    [sections |-> {"collaboration_metrics"},
     nested |-> [EmptyDoc EXCEPT !["h_index"] = v],
     dot |-> EmptyDoc]
UpdateInputs ==
    {DotUpdate("position", "v2"), DotUpdate("h_index", "v2"), FormUpdate("v2"), MetricsUpdate("v2")}

IsDotForm(f) == f.sections = {}

\* ------------------------------------------------------ partial functions
Put(f, k, v) == [x \in DOMAIN f \cup {k} |-> IF x = k THEN v ELSE f[x]]
Remove(f, k) == [x \in DOMAIN f \ {k} |-> f[x]]
EmptyMap == [x \in {} |-> Absent]


\* ---------------------------------------------------- document store (mongo)
\* db state: [researchers, legacy, publications, projects].
\*   researchers : string _id -> document
\*   legacy      : hex string h -> document whose stored _id is ObjectId(h)
\*   publications, projects : ids of the catalogue entries stored

\* mongo_repo.py:51-60  create_researcher stamps metadata (datetime objects).
StampMetadata(e) == [e EXCEPT !["metadata"] = "datetime"]

\* Faulty variant: the insert replaces a document that already has the _id
\* (an upsert) instead of raising DuplicateKeyError.
InsertFails_upsert(db, up, id) == ~up

\* mongo_repo.py:62  insert_one raises on an unreachable store or a duplicate _id.
InsertFails(db, up, id) == ~up \/ id \in DOMAIN db.researchers

\* Faulty variant: an identifier that resolves to nothing yields an empty
\* document instead of None.
get_researcher_empty_document(db, up, id) ==
    IF ~up THEN [found |-> FALSE, doc |-> EmptyDoc]
    ELSE IF id \in DOMAIN db.researchers THEN [found |-> TRUE, doc |-> db.researchers[id]]
    ELSE IF LooksLikeObjectId(id) /\ id \in DOMAIN db.legacy THEN [found |-> TRUE, doc |-> db.legacy[id]]
    ELSE [found |-> TRUE, doc |-> EmptyDoc]

\* mongo_repo.py:69-92  get_researcher: None is [found |-> FALSE].
get_researcher(db, up, id) ==
    IF ~up THEN [found |-> FALSE, doc |-> EmptyDoc]
    ELSE IF id \in DOMAIN db.researchers THEN [found |-> TRUE, doc |-> db.researchers[id]]
    ELSE IF LooksLikeObjectId(id) /\ id \in DOMAIN db.legacy THEN [found |-> TRUE, doc |-> db.legacy[id]]
    ELSE [found |-> FALSE, doc |-> EmptyDoc]

\* The document the document store resolves x to, if it holds one.
HasDocument(db, x) == x \in DOMAIN db.researchers \cup DOMAIN db.legacy
DocumentOf(db, x) == IF x \in DOMAIN db.researchers THEN db.researchers[x] ELSE db.legacy[x]

\* $set: a dot-path key sets one leaf, a nested key replaces the whole sub-document.
MongoSet(doc, f) ==
    [l \in Leaves |->
        IF f.dot[l] # Absent THEN f.dot[l]
        ELSE IF SectionOf(l) \in f.sections THEN f.nested[l]
        ELSE doc[l]]

\* mongo_repo.py:109-121  update_researcher: update_one({'_id': researcher_id}, $set);
\* metadata.last_updated changes on every call, so a matched document is a modified one.
UpdateMatches(db, up, id) == up /\ id \in DOMAIN db.researchers
update_researcher(db, up, id, f) ==
    IF UpdateMatches(db, up, id)
    THEN [db EXCEPT !.researchers = [@ EXCEPT ![id] = MongoSet(@, f)]]
    ELSE db

\* Faulty variant: delete reports the acknowledgement of the command instead
\* of deleted_count > 0.
DeleteMatches_acknowledged(db, up, id) == up

\* mongo_repo.py:123-131  delete_researcher: delete_one({'_id': researcher_id}).
DeleteMatches(db, up, id) == up /\ id \in DOMAIN db.researchers
delete_researcher(db, up, id) ==
    IF DeleteMatches(db, up, id)
    THEN [db EXCEPT !.researchers = Remove(@, id)]
    ELSE db

\* The publications and projects that can be stored, with the researchers they name.
PubCatalog == [p \in {"p1"} |-> [authors |-> {"u1", "h1"}, citation_count |-> "c1"]]
ProjCatalog == [j \in {"j1"} |-> [participants |-> {"u1", "u2"}]]

\* Faulty variant: the list is the one known when the researcher was first
\* seen, whatever the store holds now.
PublicationsOf_remembered(db, up, id) ==
    IF up THEN {p \in DOMAIN PubCatalog : id \in PubCatalog[p].authors} ELSE {}

\* mongo_repo.py:318-334  find_documents: [] when the store is unreachable.
\* query_engine.py:75-97  the publications naming researcher_id as an author.
PublicationsOf(db, up, id) ==
    IF up THEN {p \in db.publications : id \in PubCatalog[p].authors} ELSE {}
\* query_engine.py:100-111  the projects naming researcher_id as a participant.
ProjectsOf(db, up, id) ==
    IF up THEN {j \in db.projects : id \in ProjCatalog[j].participants} ELSE {}

\* ------------------------------------------------------- cache store (redis)
\* cache state: [profile, stats], each a map from researcher id to the value
\* under researcher_profile:<id> / researcher_stats:<id>.

\* json.dumps(profile_data, default=str) then json.loads: datetime objects come
\* back as strings, JSON scalars and lists as themselves.
JsonRoundTrip(doc) == [l \in Leaves |-> IF doc[l] = "datetime" THEN "isoformat" ELSE doc[l]]

\* redis_repo.py:76  {k: str(v)}
Str(v) == IF v = Absent THEN Absent ELSE IF v = "v1" THEN "str_v1" ELSE "str_v2"

StatFields == {"publications_count", "h_index", "collaboration_score"}
StatLeaf(k) == IF k = "publications_count" THEN "total_publications" ELSE k
NoStats == [k \in StatFields |-> Absent]

\* Faulty variant: the profile is serialised but never stored.
cache_researcher_profile_not_stored(c, up, id, doc) == c

\* redis_repo.py:49-58  cache_researcher_profile (setex).
cache_researcher_profile(c, up, id, doc) ==
    IF up THEN [c EXCEPT !.profile = Put(@, id, JsonRoundTrip(doc))] ELSE c

\* redis_repo.py:60-70  get_cached_researcher_profile: None is [found |-> FALSE].
get_cached_researcher_profile(c, up, id) ==
    IF up /\ id \in DOMAIN c.profile
    THEN [found |-> TRUE, doc |-> c.profile[id]]
    ELSE [found |-> FALSE, doc |-> EmptyDoc]

\* redis_repo.py:72-82  update_researcher_stats: hset merges the given fields
\* into the hash; stats maps each given field to its value, Absent when not given.
update_researcher_stats(c, up, id, stats) ==
    IF up
    THEN LET old == IF id \in DOMAIN c.stats THEN c.stats[id] ELSE NoStats
         IN [c EXCEPT !.stats = Put(@, id, [k \in StatFields |->
                IF stats[k] # Absent THEN Str(stats[k]) ELSE old[k]])]
    ELSE c

\* Faulty variant: only the full-profile key is deleted.
invalidate_researcher_cache_profile_only(c, up, id) ==
    IF up THEN [c EXCEPT !.profile = Remove(@, id)] ELSE c

\* redis_repo.py:207-220  invalidate_researcher_cache: delete both keys.
invalidate_researcher_cache(c, up, id) ==
    IF up THEN [profile |-> Remove(c.profile, id), stats |-> Remove(c.stats, id)] ELSE c


\* ------------------------------------------------------- graph store (neo4j)
\* graph state: [nodes, edges].
\*   nodes : handle -> properties of one Researcher node (several nodes may
\*           carry the same id property: CREATE enforces no uniqueness)
\*   edges : {a, b} -> strength of the CO_AUTHORED_WITH relationship between
\*           the nodes a and b ({a} is a relationship from a to itself)
Handles == 1..MaxNodes
NodeProps == {"first_name", "last_name", "email", "department", "position", "h_index", "publication_count"}
\* neo4j_repo.py:53-62  the document leaf each node property is copied from
\* (name is first_name and last_name joined; kept here as its two parts).
LeafOfProp(p) ==
    IF p = "department" THEN "department_id"
    ELSE IF p = "publication_count" THEN "total_publications"
    ELSE p
NodesWithId(g, id) == {h \in DOMAIN g.nodes : g.nodes[h].id = id}
FreeHandles(g) == Handles \ DOMAIN g.nodes
NewHandle(g) == CHOOSE h \in FreeHandles(g) : \A k \in FreeHandles(g) : h <= k
BareNode(id) == [p \in NodeProps \cup {"id"} |-> IF p = "id" THEN id ELSE Absent]

\* neo4j_repo.py:53-62  building props raises KeyError (caught at :71) unless
\* the entity carries every field read with [].
HasNodeFields(e) == \A p \in NodeProps : e[LeafOfProp(p)] # Absent

\* neo4j_repo.py:48-73  create_researcher_node: CREATE (r:Researcher $props).
create_researcher_node(g, up, e, id) ==
    IF up /\ HasNodeFields(e)
    THEN [g EXCEPT !.nodes = Put(@, NewHandle(g),
            [p \in NodeProps \cup {"id"} |-> IF p = "id" THEN id ELSE e[LeafOfProp(p)]])]
    ELSE g

\* neo4j_repo.py:79-107  the SET clauses built from update_data: only nested
\* 'personal_info' / 'academic_profile' / 'collaboration_metrics' keys are read;
\* name needs first_name and last_name together.
SetClause(f, p) ==
    LET l == LeafOfProp(p)
    IN IF SectionOf(l) \notin f.sections THEN Absent
       ELSE IF p \in {"first_name", "last_name"}
            THEN (IF f.nested["first_name"] # Absent /\ f.nested["last_name"] # Absent
                  THEN f.nested[l] ELSE Absent)
       ELSE f.nested[l]

\* neo4j_repo.py:75-118  update_researcher_node: MATCH (r {id}) SET ...
update_researcher_node(g, up, id, f) ==
    IF up
    THEN [g EXCEPT !.nodes = [h \in DOMAIN @ |->
            IF @[h].id = id
            THEN [p \in NodeProps \cup {"id"} |->
                    IF p # "id" /\ SetClause(f, p) # Absent THEN SetClause(f, p) ELSE @[h][p]]
            ELSE @[h]]]
    ELSE g

\* Faulty variant: DELETE r without DETACH, which the graph store refuses for
\* a node that still has relationships.
delete_researcher_node_without_detach(g, up, id) ==
    IF up /\ \A k \in DOMAIN g.edges : k \cap NodesWithId(g, id) = {}
    THEN [g EXCEPT !.nodes = [h \in DOMAIN @ \ NodesWithId(g, id) |-> @[h]]]
    ELSE g

\* neo4j_repo.py:120-133  delete_researcher_node: MATCH (r {id}) DETACH DELETE r.
delete_researcher_node(g, up, id) ==
    IF up
    THEN LET gone == NodesWithId(g, id)
             keep == {k \in DOMAIN g.edges : k \cap gone = {}}
         IN [nodes |-> [h \in DOMAIN g.nodes \ gone |-> g.nodes[h]],
             edges |-> [k \in keep |-> g.edges[k]]]
    ELSE g

\* neo4j_repo.py:143-144  MERGE (r1:Researcher {id: $id1}) MERGE (r2:Researcher {id: $id2}):
\* a node is created, with the id property alone, for an id no node carries.
MergeNode(g, id) ==
    IF NodesWithId(g, id) # {} THEN g
    ELSE [g EXCEPT !.nodes = Put(@, NewHandle(g), BareNode(id))]

\* Handles the two MERGEs of add_collaboration would have to allocate.
MergeNeeds(g, id1, id2) == Cardinality({i \in {id1, id2} : NodesWithId(g, i) = {}})

\* neo4j_repo.py:137-156  add_collaboration: one row per pair of matched nodes;
\* MERGE (r1)-[c:CO_AUTHORED_WITH]-(r2) creates the relationship with strength 1
\* or adds 1 to the strength of the one it matches, in either direction.
add_collaboration(g, up, id1, id2) ==
    IF up
    THEN LET g2 == MergeNode(MergeNode(g, id1), id2)
             rows == NodesWithId(g2, id1) \X NodesWithId(g2, id2)
             keys == {{r[1], r[2]} : r \in rows}
             hits(k) == Cardinality({r \in rows : {r[1], r[2]} = k})
         IN [g2 EXCEPT !.edges = [k \in DOMAIN @ \cup keys |->
                IF k \in keys
                THEN (IF k \in DOMAIN @ THEN @[k] ELSE 0) + hits(k)
                ELSE @[k]]]
    ELSE g

\* neo4j_repo.py:158-172  remove_collaboration: MATCH (r1 {id1})-[c]-(r2 {id2}) DELETE c.
remove_collaboration(g, up, id1, id2) ==
    IF up
    THEN LET gone == {k \in DOMAIN g.edges :
                        \E a \in NodesWithId(g, id1), b \in NodesWithId(g, id2) : k = {a, b}}
         IN [g EXCEPT !.edges = [k \in DOMAIN @ \ gone |-> @[k]]]
    ELSE g

\* neo4j_repo.py:206  LIMIT 20
CollaboratorLimit == 20

\* neo4j_repo.py:197-219  find_collaborators with max_depth = 2:
\* RETURN DISTINCT collaborator, length(path) over the paths of one or two
\* distinct relationships from a node with this id; [] when unreachable.
\* Each row is [node, id, distance]; ORDER BY distance ... LIMIT keeps the
\* nearest rows (MaxNodes nodes give at most 2 * MaxNodes rows).
PathRows(g, id) ==
    LET E == DOMAIN g.edges
        Other(k, a) == IF k = {a} THEN a ELSE CHOOSE b \in k : b # a
        hop1 == {<<k, r>> \in E \X NodesWithId(g, id) : r \in k}
        d1 == {[node |-> Other(x[1], x[2]), id |-> g.nodes[Other(x[1], x[2])].id, distance |-> 1] : x \in hop1}
        hop2 == {<<x, k2>> \in hop1 \X E : k2 # x[1] /\ Other(x[1], x[2]) \in k2}
        d2 == {[node |-> Other(y[2], Other(y[1][1], y[1][2])),
                id |-> g.nodes[Other(y[2], Other(y[1][1], y[1][2]))].id,
                distance |-> 2] : y \in hop2}
    IN d1 \cup d2
find_collaborators(g, up, id) ==
    IF ~up THEN {}
    ELSE IF Cardinality(PathRows(g, id)) <= CollaboratorLimit THEN PathRows(g, id)
    ELSE CHOOSE s \in SUBSET PathRows(g, id) :
            /\ Cardinality(s) = CollaboratorLimit
            /\ \A x \in s, y \in PathRows(g, id) \ s : x.distance <= y.distance


\* ------------------------------------------------------------------ state
VARIABLES
    mongodb,    \* document store: [researchers, legacy, publications, projects]
    neo4j,      \* graph store: [nodes, edges]
    redis,      \* cache store: [profile, stats]
    up,         \* [mongodb, neo4j, redis]: is the store reachable now
    cassandra,  \* analytics store handle: "not_connected" before connect_all,
                \* then "session" (repository with a live session),
                \* "no_session" (repository whose connect gave up) or
                \* "none" (connect raised: connect_all set the handle to None)
    budget,     \* steps this history may still take
    ret,        \* what the last operation returned to its caller
    mon,        \* per identifier: where the history of operations on it stands
    calls       \* the calls running step by step: each caller's position and
                \* local variables, and the order of the store accesses so far

vars == <<mongodb, neo4j, redis, up, cassandra, budget, ret, mon, calls>>

Stores == {"mongodb", "neo4j", "redis"}
\* api_server.py:155-164  operations run on a manager whose connect_all returned True.
Connected == cassandra # "not_connected"
AllUp == \A s \in Stores : up[s]

\* query_engine.py:119-214  search criteria: department ("" when not given),
\* sort_by, sort_order (negative: descending), limit, and the four numeric
\* range bounds (NoBound: the key is missing or None).
\* query_engine.py:209  criteria.get("limit", 20)
SearchLimit == 20
NoBound == -1
NoRange ==
    [min_h_index |-> NoBound, max_h_index |-> NoBound,
     min_publications |-> NoBound, max_publications |-> NoBound]
Criteria ==
    [department : {"", "v1"},
     sort_by : {"h_index", "publication_count", "collaboration_metrics.h_index"},
     sort_order : {-1, 1},
     limit : {1, SearchLimit},
     range : {NoRange}]
NoCriteria == [department |-> "", sort_by |-> "", sort_order |-> 0, limit |-> 0, range |-> NoRange]

\* ret.status is the HTTP status GET /researchers/{id} answers for a read,
\* ret.time_series the analytics rows of a department analytics read,
\* ret.criteria / ret.result the input and output of a search.
NoRet ==
    [op |-> "none", id |-> NoId, id2 |-> NoId, ok |-> FALSE, raised |-> FALSE,
     wrote |-> FALSE, cache_status |-> "", error |-> "", data |-> EmptyDoc,
     collaborators |-> {}, publications |-> {}, projects |-> {},
     f |-> NoUpdate, listed |-> {}, up |-> [s \in Stores |-> TRUE], status |-> 0,
     time_series |-> {}, criteria |-> NoCriteria, result |-> << >>]

\* mon[x].ph: the last operations on x, all with every store reachable, were
\*   "created"  a create that returned x
\*   "cached"   a read that left x's profile in the cache
\*   "updated"  such a read (or a later one), then an update of x while
\*              get_researcher resolves x
\*   "read1"    ... then a read        "read2"  ... then a second read
\*   "first"    a create that returned x, then a read
\*   "deleted"  a delete that removed x's record   "redeleted"  ... then a delete
\* mon[x].gone: "found" once a read returned x's profile, "deleted" once a
\* delete of x completed after that, "no" after x is created (again).
\* mon[x].made: create returned x, and no delete of x or other create writing
\* x has happened since.
\* mon[x].again: the last operation on x was a read, and no write to x and no
\* expiry of x's profile entry has happened since: "cached" when that read
\* returned a profile with the cache store reachable, "read" otherwise.
\* mon[x].changed: "added" / "removed" when, since x's profile entry was
\* written to the cache, a publication or project naming x was last stored /
\* removed; "no" otherwise.
NoMon ==
    [ph |-> "none", e |-> EmptyDoc, f |-> NoUpdate, gone |-> "no", made |-> FALSE,
     again |-> "no", changed |-> "no"]
Reset(m) == [NoMon EXCEPT !.gone = m.gone, !.made = m.made]

\* A call that runs step by step, one store access after another, so that
\* the steps of two callers interleave. at[c].pc names the store access caller
\* c makes next ("idle": no call in progress); id, id2, f are the call's
\* arguments, doc and ok its local variables mongo_profile and success.
\* log lists the store accesses made so far, oldest first.
Callers == {"c1", "c2"}
Idle ==
    [pc |-> "idle", id |-> NoId, id2 |-> NoId, f |-> NoUpdate, doc |-> EmptyDoc, ok |-> FALSE]
NoCalls == [at |-> [c \in Callers |-> Idle], log |-> << >>]

LegacyDocs == {EmptyMap, [h \in HexIds |-> StampMetadata(EntityFull)]}

Stored ==
    /\ mongodb \in {[researchers |-> EmptyMap, legacy |-> lg, publications |-> {}, projects |-> {}] :
                        lg \in LegacyDocs}
    /\ neo4j = [nodes |-> EmptyMap, edges |-> EmptyMap]
    /\ redis = [profile |-> EmptyMap, stats |-> EmptyMap]
    /\ ret = NoRet
    /\ mon = [x \in Ids |-> NoMon]

\* database_manager.py:34-68  connect_all returned True: every store answered.
Init ==
    /\ Stored
    /\ up = [s \in Stores |-> TRUE]
    /\ cassandra = "session"
    /\ calls = NoCalls
    /\ budget = MaxSteps

\* str(uuid.uuid4()): an identifier no store holds anything for.
Traces ==
    DOMAIN mongodb.researchers \cup DOMAIN redis.profile \cup DOMAIN redis.stats
        \cup {neo4j.nodes[h].id : h \in DOMAIN neo4j.nodes}
FreshIds == UuidIds \ Traces
NewUuid == CHOOSE x \in FreshIds : TRUE

\* ------------------------------------------------- create (database_manager.py:88-114)
\* database_manager.py:99-104  stats reads the three metrics with []: KeyError
\* when the entity has a collaboration_metrics block that lacks one of them.
StatsOfEntity(e) == [k \in StatFields |-> e[StatLeaf(k)]]
StatsKeyError(e) ==
    HasSection(e, "collaboration_metrics") /\ \E k \in StatFields : e[StatLeaf(k)] = Absent

\* Faulty variant: create leaves the full-profile entry to the first read.
CreateMirrors_without_profile(g, c, u, e, id) ==
    LET g2 == create_researcher_node(g, u.neo4j, e, id)
        c1 == IF HasSection(e, "collaboration_metrics")
              THEN update_researcher_stats(c, u.redis, id, StatsOfEntity(e))
              ELSE c
    IN IF StatsKeyError(e)
       THEN [neo4j |-> g2, redis |-> c, raised |-> TRUE]
       ELSE [neo4j |-> g2, redis |-> c1, raised |-> FALSE]

\* Faulty variant: a graph step that did not complete aborts create.
CreateMirrors_graph_fatal(g, c, u, e, id) ==
    LET doc == StampMetadata(e)
        c1 == IF HasSection(e, "collaboration_metrics")
              THEN update_researcher_stats(c, u.redis, id, StatsOfEntity(e))
              ELSE c
    IN IF StatsKeyError(e) \/ ~u.neo4j
       THEN [neo4j |-> g, redis |-> c, raised |-> TRUE]
       ELSE [neo4j |-> create_researcher_node(g, u.neo4j, e, id),
             redis |-> cache_researcher_profile(c1, u.redis, id, doc), raised |-> FALSE]

\* The graph and cache steps of create, database_manager.py:94-107.
CreateMirrors(g, c, u, e, id) ==
    LET doc == StampMetadata(e)
        g2 == create_researcher_node(g, u.neo4j, e, id)
        c1 == IF HasSection(e, "collaboration_metrics")
              THEN update_researcher_stats(c, u.redis, id, StatsOfEntity(e))
              ELSE c
    IN IF StatsKeyError(e)
       THEN [neo4j |-> g2, redis |-> c, raised |-> TRUE]
       ELSE [neo4j |-> g2, redis |-> cache_researcher_profile(c1, u.redis, id, doc), raised |-> FALSE]

create_researcher_comprehensive(e, sid) ==
    /\ budget > 0
    /\ Connected
    /\ sid = NoId => FreshIds # {}
    /\ LET id == IF sid = NoId THEN NewUuid ELSE sid
           fails == InsertFails(mongodb, up.mongodb, id)
           m == CreateMirrors(neo4j, redis, up, e, id)
       IN /\ (~fails /\ up.neo4j /\ HasNodeFields(e)) => FreeHandles(neo4j) # {}
          /\ mongodb' = IF fails THEN mongodb
                        ELSE [mongodb EXCEPT !.researchers = Put(@, id, StampMetadata(e))]
          /\ neo4j' = IF fails THEN neo4j ELSE m.neo4j
          /\ redis' = IF fails THEN redis ELSE m.redis
          /\ ret' = [NoRet EXCEPT !.op = "create", !.id = id, !.up = up,
                        !.wrote = ~fails,
                        !.raised = fails \/ m.raised,
                        !.ok = ~fails /\ ~m.raised]
          /\ mon' = [mon EXCEPT ![id] =
                        IF fails THEN Reset(mon[id])
                        ELSE [ph |-> IF AllUp /\ ~m.raised THEN "created" ELSE "none",
                              e |-> IF AllUp /\ ~m.raised THEN e ELSE EmptyDoc,
                              f |-> NoUpdate, gone |-> "no", made |-> ~m.raised,
                              again |-> "no", changed |-> "no"]]
    /\ budget' = budget - 1
    /\ UNCHANGED <<up, cassandra, calls>>


\* ------------------------------------------------- update (database_manager.py:116-148)
\* database_manager.py:130-138  the stats picked out of a nested
\* collaboration_metrics block.
StatsOfUpdate(f) ==
    [k \in StatFields |->
        IF "collaboration_metrics" \in f.sections THEN f.nested[StatLeaf(k)] ELSE Absent]

\* Faulty variant: the cache step of update writes the stats and leaves the
\* entries in place.
UpdateCache_without_invalidation(c, u, id, f) ==
    IF StatsOfUpdate(f) # NoStats
    THEN update_researcher_stats(c, u, id, StatsOfUpdate(f))
    ELSE c

\* The cache step of update, database_manager.py:125-141: invalidate, then
\* write the stats the update carries.
UpdateCache(c, u, id, f) ==
    LET c1 == invalidate_researcher_cache(c, u, id)
    IN IF StatsOfUpdate(f) # NoStats
       THEN update_researcher_stats(c1, u, id, StatsOfUpdate(f))
       ELSE c1

update_researcher_comprehensive(id, f) ==
    /\ budget > 0
    /\ Connected
    /\ LET success == UpdateMatches(mongodb, up.mongodb, id)
           existing == get_researcher(mongodb, up.mongodb, id).found
       IN /\ mongodb' = update_researcher(mongodb, up.mongodb, id, f)
          /\ neo4j' = update_researcher_node(neo4j, up.neo4j, id, f)
          /\ redis' = UpdateCache(redis, up.redis, id, f)
          /\ ret' = [NoRet EXCEPT !.op = "update", !.id = id, !.f = f, !.up = up,
                        !.ok = success, !.wrote = success]
          /\ mon' = [mon EXCEPT ![id] =
                        IF AllUp /\ existing /\ mon[id].ph \in {"cached", "first", "read1", "read2"}
                        THEN [Reset(mon[id]) EXCEPT !.ph = "updated", !.f = f]
                        ELSE Reset(mon[id])]
    /\ budget' = budget - 1
    /\ UNCHANGED <<up, cassandra, calls>>

\* ------------------------------------------------- delete (database_manager.py:185-202)
\* The researchers whose collaborator list names x.
ListedBy(g, x) == {y \in Ids \ {x} : \E r \in find_collaborators(g, TRUE, y) : r.id = x}

delete_researcher_comprehensive(id) ==
    /\ budget > 0
    /\ Connected
    /\ LET mongo_success == DeleteMatches(mongodb, up.mongodb, id)
       IN /\ mongodb' = delete_researcher(mongodb, up.mongodb, id)
          /\ neo4j' = delete_researcher_node(neo4j, up.neo4j, id)
          /\ redis' = invalidate_researcher_cache(redis, up.redis, id)
          /\ ret' = [NoRet EXCEPT !.op = "delete", !.id = id, !.up = up,
                        !.ok = mongo_success, !.wrote = mongo_success,
                        !.listed = ListedBy(neo4j, id)]
          /\ mon' = [mon EXCEPT ![id] =
                        [NoMon EXCEPT
                            !.ph = IF mon[id].ph = "deleted" THEN "redeleted"
                                   ELSE IF mongo_success THEN "deleted" ELSE "none",
                            !.gone = IF mon[id].gone = "no" THEN "no" ELSE "deleted"]]
    /\ budget' = budget - 1
    /\ UNCHANGED <<up, cassandra, calls>>

\* --------------------------------------------------- read (query_engine.py:25-117)
Profile(doc) == [l \in Leaves |-> IF l \in BaseLeaves THEN doc[l] ELSE Absent]

\* api_server.py:208-221  GET /researchers/{researcher_id}: the status code
\* answered for the profile result r. HTTPException(404) is raised inside the
\* try block, and the handler's except Exception turns whatever was raised
\* there into HTTPException(500).
get_researcher_profile(r) ==
    LET raised_in_try == IF r.error # "" THEN 404 ELSE 0
    IN IF raised_in_try # 0 THEN 500 ELSE 200

get_researcher_profile_complete(id) ==
    /\ budget > 0
    /\ Connected
    /\ LET cached == get_cached_researcher_profile(redis, up.redis, id)
           mongo_profile == get_researcher(mongodb, up.mongodb, id)
           found == cached.found \/ mongo_profile.found
           researcher_data == IF cached.found THEN cached.doc ELSE mongo_profile.doc
           profile == IF ~found
                      THEN [NoRet EXCEPT !.op = "read", !.id = id, !.up = up,
                              !.error = "Researcher not found"]
                      ELSE [NoRet EXCEPT !.op = "read", !.id = id, !.up = up, !.ok = TRUE,
                              !.cache_status = IF cached.found THEN "hit" ELSE "miss",
                              !.data = Profile(researcher_data),
                              !.collaborators = find_collaborators(neo4j, up.neo4j, id),
                              !.publications = PublicationsOf(mongodb, up.mongodb, id),
                              !.projects = ProjectsOf(mongodb, up.mongodb, id)]
       IN /\ redis' = IF ~cached.found /\ mongo_profile.found
                      THEN cache_researcher_profile(redis, up.redis, id, mongo_profile.doc)
                      ELSE redis
          /\ ret' = [profile EXCEPT !.status = get_researcher_profile(profile)]
          /\ mon' = [mon EXCEPT ![id] =
                        LET m == mon[id]
                            gone == IF found /\ m.gone = "no" THEN "found" ELSE m.gone
                            again == IF found /\ up.redis THEN "cached" ELSE "read"
                            changed == IF cached.found THEN m.changed ELSE "no"
                        IN IF ~found \/ ~AllUp
                           THEN [NoMon EXCEPT !.gone = gone, !.made = m.made, !.again = again,
                                              !.changed = changed]
                           ELSE [ph |-> IF m.ph = "created" THEN "first"
                                        ELSE IF m.ph = "updated" THEN "read1"
                                        ELSE IF m.ph = "read1" THEN "read2"
                                        ELSE "cached",
                                 e |-> IF m.ph = "created" THEN m.e ELSE EmptyDoc,
                                 f |-> IF m.ph \in {"updated", "read1"} THEN m.f ELSE NoUpdate,
                                 gone |-> gone, made |-> m.made, again |-> again,
                                 changed |-> changed]]
    /\ budget' = budget - 1
    /\ UNCHANGED <<mongodb, neo4j, up, cassandra, calls>>

\* ------------------------------------- add_collaboration (database_manager.py:259-282)
\* Faulty variant: only the first researcher's cache entries are invalidated.
add_collaboration_comprehensive_first_only(id1, id2) ==
    /\ budget > 0
    /\ id1 # id2
    /\ up.neo4j => Cardinality(FreeHandles(neo4j)) >= MergeNeeds(neo4j, id1, id2)
    /\ neo4j' = add_collaboration(neo4j, up.neo4j, id1, id2)
    /\ redis' = invalidate_researcher_cache(redis, up.redis, id1)
    /\ ret' = [NoRet EXCEPT !.op = "add_collaboration", !.id = id1, !.id2 = id2,
                    !.up = up, !.ok = up.neo4j]
    /\ mon' = [x \in Ids |-> IF x \in {id1, id2} THEN Reset(mon[x]) ELSE mon[x]]
    /\ budget' = budget - 1
    /\ UNCHANGED <<mongodb, up, cassandra, calls>>

\* collaboration_type = "CO_AUTHORED_WITH".
add_collaboration_comprehensive(id1, id2) ==
    /\ budget > 0
    /\ id1 # id2
    /\ up.neo4j => Cardinality(FreeHandles(neo4j)) >= MergeNeeds(neo4j, id1, id2)
    /\ neo4j' = add_collaboration(neo4j, up.neo4j, id1, id2)
    /\ redis' = invalidate_researcher_cache(
                    invalidate_researcher_cache(redis, up.redis, id1), up.redis, id2)
    /\ ret' = [NoRet EXCEPT !.op = "add_collaboration", !.id = id1, !.id2 = id2,
                    !.up = up, !.ok = up.neo4j]
    /\ mon' = [x \in Ids |-> IF x \in {id1, id2} THEN Reset(mon[x]) ELSE mon[x]]
    /\ budget' = budget - 1
    /\ UNCHANGED <<mongodb, up, cassandra, calls>>

\* -------------------------------------------------------------- environment
\* redis_repo.py:53  setex(key, 1800, ...): the profile entry expires.
expire_profile(id) ==
    /\ budget > 0
    /\ budget' = budget - 1
    /\ id \in DOMAIN redis.profile
    /\ redis' = [redis EXCEPT !.profile = Remove(@, id)]
    /\ mon' = [mon EXCEPT ![id] = Reset(mon[id])]
    /\ UNCHANGED <<mongodb, neo4j, up, ret, cassandra, calls>>

\* redis_repo.py:77  expire(key, 3600): the statistics hash expires.
expire_stats(id) ==
    /\ budget > 0
    /\ budget' = budget - 1
    /\ id \in DOMAIN redis.stats
    /\ redis' = [redis EXCEPT !.stats = Remove(@, id)]
    /\ UNCHANGED <<mongodb, neo4j, up, ret, mon, cassandra, calls>>

\* A store becomes unreachable, or reachable again.
store_fails(s) ==
    /\ budget > 0
    /\ budget' = budget - 1
    /\ up[s]
    /\ up' = [up EXCEPT ![s] = FALSE]
    /\ UNCHANGED <<mongodb, neo4j, redis, ret, mon, cassandra, calls>>

store_recovers(s) ==
    /\ budget > 0
    /\ budget' = budget - 1
    /\ ~up[s]
    /\ up' = [up EXCEPT ![s] = TRUE]
    /\ UNCHANGED <<mongodb, neo4j, redis, ret, mon, cassandra, calls>>

\* The cached researchers among xs take note that a publication or project
\* naming them was stored or removed.
Note(xs, what) ==
    [x \in Ids |-> IF x \in xs /\ x \in DOMAIN redis.profile
                   THEN [mon[x] EXCEPT !.changed = what] ELSE mon[x]]

\* database_manager.py:231-241  a publication is stored.
create_publication_comprehensive(p) ==
    /\ budget > 0
    /\ up.mongodb /\ p \notin mongodb.publications
    /\ mongodb' = [mongodb EXCEPT !.publications = @ \cup {p}]
    /\ ret' = [NoRet EXCEPT !.op = "create_publication", !.up = up, !.ok = TRUE]
    /\ mon' = Note(PubCatalog[p].authors, "added")
    /\ budget' = budget - 1
    /\ UNCHANGED <<neo4j, redis, up, cassandra, calls>>

\* database_manager.py:251-257  a publication is removed; False when the
\* document store deleted nothing.
delete_publication_comprehensive(p) ==
    /\ budget > 0
    /\ LET success == up.mongodb /\ p \in mongodb.publications
       IN /\ mongodb' = IF success THEN [mongodb EXCEPT !.publications = @ \ {p}] ELSE mongodb
          /\ ret' = [NoRet EXCEPT !.op = "delete_publication", !.up = up, !.ok = success]
          /\ mon' = IF success THEN Note(PubCatalog[p].authors, "removed") ELSE mon
    /\ budget' = budget - 1
    /\ UNCHANGED <<neo4j, redis, up, cassandra, calls>>

\* database_manager.py:204-213  a project is stored.
create_project_comprehensive(j) ==
    /\ budget > 0
    /\ up.mongodb /\ j \notin mongodb.projects
    /\ mongodb' = [mongodb EXCEPT !.projects = @ \cup {j}]
    /\ ret' = [NoRet EXCEPT !.op = "create_project", !.up = up, !.ok = TRUE]
    /\ mon' = Note(ProjCatalog[j].participants, "added")
    /\ budget' = budget - 1
    /\ UNCHANGED <<neo4j, redis, up, cassandra, calls>>

\* database_manager.py:223-229  a project is removed; False when the document
\* store deleted nothing.
delete_project_comprehensive(j) ==
    /\ budget > 0
    /\ LET success == up.mongodb /\ j \in mongodb.projects
       IN /\ mongodb' = IF success THEN [mongodb EXCEPT !.projects = @ \ {j}] ELSE mongodb
          /\ ret' = [NoRet EXCEPT !.op = "delete_project", !.up = up, !.ok = success]
          /\ mon' = IF success THEN Note(ProjCatalog[j].participants, "removed") ELSE mon
    /\ budget' = budget - 1
    /\ UNCHANGED <<neo4j, redis, up, cassandra, calls>>

\* web_interface.py:1264-1291  remove_collaborator: the relationship is
\* removed, then both profile keys are deleted from the cache (an unreachable
\* cache store makes the handler answer 500 after the graph has changed).
remove_collaborator(id1, id2) ==
    /\ budget > 0
    /\ id1 # id2
    /\ neo4j' = remove_collaboration(neo4j, up.neo4j, id1, id2)
    /\ redis' = IF up.neo4j /\ up.redis
                THEN [redis EXCEPT !.profile = Remove(Remove(@, id1), id2)]
                ELSE redis
    /\ ret' = [NoRet EXCEPT !.op = "remove_collaboration", !.id = id1, !.id2 = id2,
                    !.up = up, !.ok = up.neo4j /\ up.redis]
    /\ mon' = [x \in Ids |-> IF x \in {id1, id2} THEN Reset(mon[x]) ELSE mon[x]]
    /\ budget' = budget - 1
    /\ UNCHANGED <<mongodb, up, cassandra, calls>>

\* ------------------------------------------- search (query_engine.py:119-214)
\* The sequences that list every element of S once.
Orders(S) ==
    {o \in [1..Cardinality(S) -> S] : \A x \in S : \E i \in 1..Cardinality(S) : o[i] = x}

\* The metric values as numbers.
Rank(v) == IF v = "v1" THEN 1 ELSE IF v = "v2" THEN 2 ELSE 0

\* query_engine.py:137-153  if criteria.get("min_...") or criteria.get("max_..."):
\* a bound takes part in the query when it is truthy, that is neither None
\* nor 0.
Truthy(bound) == bound # NoBound /\ bound # 0

\* query_engine.py:137-153  the range condition put on a metric field v:
\* none when neither bound is truthy; otherwise {"$gte": min} and {"$lte": max}
\* for the truthy bounds, which a document without the field does not match.
InRange(v, min, max) ==
    (Truthy(min) \/ Truthy(max)) =>
        /\ v # Absent
        /\ Truthy(min) => Rank(v) >= min
        /\ Truthy(max) => Rank(v) <= max

\* mongo_repo.py:94-107  search_researchers: find(query) with no sort; the
\* identifiers of the documents the query built at query_engine.py:122-182
\* matches, [] when the store is unreachable.
SearchMatches(db, u, cr) ==
    IF u
    THEN {x \in Ids : /\ HasDocument(db, x)
                      /\ cr.department # "" => DocumentOf(db, x)["department_id"] = cr.department
                      /\ InRange(DocumentOf(db, x)["h_index"],
                                 cr.range.min_h_index, cr.range.max_h_index)
                      /\ InRange(DocumentOf(db, x)["total_publications"],
                                 cr.range.min_publications, cr.range.max_publications)}
    ELSE {}

\* query_engine.py:204  the sort key x.get("collaboration_metrics", {}).get(sort_by, 0):
\* of the three accepted names only h_index is a field of the block.
SortKey(doc, sort_by) == IF sort_by = "h_index" THEN Rank(doc["h_index"]) ELSE 0

\* query_engine.py:198-206  list.sort(key, reverse): stable, equal keys keep
\* the order of the cursor; no sort at all for any other sort_by.
SortResults(db, cursor, cr) ==
    IF cr.sort_by \notin {"h_index", "publication_count", "citation_count"} THEN cursor
    ELSE LET n == Len(cursor)
             key(i) == SortKey(DocumentOf(db, cursor[i]), cr.sort_by)
             before(i, j) ==
                 \/ (IF cr.sort_order < 0 THEN key(i) > key(j) ELSE key(i) < key(j))
                 \/ key(i) = key(j) /\ i < j
             place(i) == 1 + Cardinality({j \in 1..n : before(j, i)})
         IN [k \in 1..n |-> cursor[CHOOSE i \in 1..n : place(i) = k]]

\* query_engine.py:208-210  researchers[:limit]
Truncate(seq, limit) == SubSeq(seq, 1, IF Len(seq) < limit THEN Len(seq) ELSE limit)

\* search_researchers_advanced(criteria); cursor is the order in which the
\* store hands out the matching documents for this call: find() is given no
\* sort, so the store is free to hand them out in any order.
search_researchers_advanced(cr, cursor) ==
    /\ budget > 0
    /\ Connected
    /\ cursor \in Orders(SearchMatches(mongodb, up.mongodb, cr))
    /\ ret' = [NoRet EXCEPT !.op = "search", !.up = up, !.ok = TRUE, !.criteria = cr,
                    !.result = Truncate(SortResults(mongodb, cursor, cr), cr.limit)]
    /\ budget' = budget - 1
    /\ UNCHANGED <<mongodb, neo4j, redis, up, cassandra, mon, calls>>

\* --------------------------------------------------------- analytics store
\* What CassandraRepository.connect can do (cassandra_repo.py:35-89): leave a
\* live session, give up and leave session = None (driver missing, or every
\* attempt failed), or raise out of its except handler.
ConnectOutcomes == {"session", "no_session", "raises"}

\* database_manager.py:34-72  connect_all with the document, graph and cache
\* stores connecting: an exception of the analytics connect is caught on its
\* own (:63-65) and leaves self.cassandra = None.
connect_all(outcome) ==
    /\ budget > 0
    /\ cassandra = "not_connected"
    /\ cassandra' = IF outcome = "raises" THEN "none" ELSE outcome
    /\ ret' = [NoRet EXCEPT !.op = "connect_all", !.up = up, !.ok = TRUE]
    /\ budget' = budget - 1
    /\ UNCHANGED <<mongodb, neo4j, redis, up, mon, calls>>

\* The rows the department_analytics table holds.
DepartmentRows == {"day1"}

\* cassandra_repo.py:127-161  CassandraRepository.get_department_analytics:
\* [] without a session.
department_time_series(c) == IF c = "session" THEN DepartmentRows ELSE {}

\* query_engine.py:290-348  get_department_analytics: the researchers of the
\* department come from the document store ([] when unreachable), the time
\* series from self.db_manager.cassandra; with that handle None the attribute
\* access raises and the except clause returns {"error": str(e)}.
get_department_analytics(d) ==
    /\ budget > 0
    /\ Connected
    /\ LET researchers ==
              IF up.mongodb
              THEN {x \in Ids : HasDocument(mongodb, x)
                                 /\ DocumentOf(mongodb, x)["department_id"] = d}
              ELSE {}
       IN ret' = IF cassandra = "none"
                 THEN [NoRet EXCEPT !.op = "department_analytics", !.up = up,
                          !.error = "'NoneType' object has no attribute 'get_department_analytics'"]
                 ELSE [NoRet EXCEPT !.op = "department_analytics", !.up = up, !.ok = TRUE,
                          !.listed = researchers,
                          !.time_series = department_time_series(cassandra)]
    /\ budget' = budget - 1
    /\ UNCHANGED <<mongodb, neo4j, redis, up, cassandra, mon, calls>>

\* ------------------------------------------------------- calls step by step
\* The same operations, one store access per step. No lock is taken anywhere
\* in database_manager.py or query_engine.py, so between two accesses of one
\* call any access of another call may happen. The consecutive commands one
\* call sends to the same store (the two deletes of an invalidation and the
\* stats write of an update, the section queries of a read) are one step.
Step(c, rec, what, id) ==
    [calls EXCEPT !.at[c] = rec,
                  !.log = Append(@, [who |-> c, step |-> what, id |-> id])]

\* query_engine.py:30-117  the profile a read returns for researcher_data.
ProfileResult(id, status, researcher_data) ==
    LET profile == [NoRet EXCEPT !.op = "read", !.id = id, !.up = up, !.ok = TRUE,
                        !.cache_status = status,
                        !.data = Profile(researcher_data),
                        !.collaborators = find_collaborators(neo4j, up.neo4j, id),
                        !.publications = PublicationsOf(mongodb, up.mongodb, id),
                        !.projects = ProjectsOf(mongodb, up.mongodb, id)]
    IN [profile EXCEPT !.status = get_researcher_profile(profile)]

\* query_engine.py:42-46  the cache lookup; on a hit the read goes on to its
\* sections and returns.
read_lookup(c, id) ==
    /\ budget > 0
    /\ Connected
    /\ calls.at[c].pc = "idle"
    /\ LET cached == get_cached_researcher_profile(redis, up.redis, id)
       IN IF cached.found
          THEN /\ ret' = ProfileResult(id, "hit", cached.doc)
               /\ calls' = Step(c, Idle, "read_hit", id)
          ELSE /\ ret' = ret
               /\ calls' = Step(c, [Idle EXCEPT !.pc = "read_fetch", !.id = id],
                                "read_lookup", id)
    /\ budget' = budget - 1
    /\ UNCHANGED <<mongodb, neo4j, redis, up, cassandra, mon>>

\* query_engine.py:47-52  the document fetch after a lookup that found nothing.
read_fetch(c) ==
    /\ budget > 0
    /\ calls.at[c].pc = "read_fetch"
    /\ LET id == calls.at[c].id
           mongo_profile == get_researcher(mongodb, up.mongodb, id)
       IN IF ~mongo_profile.found
          THEN /\ ret' = LET r == [NoRet EXCEPT !.op = "read", !.id = id, !.up = up,
                                      !.error = "Researcher not found"]
                         IN [r EXCEPT !.status = get_researcher_profile(r)]
               /\ calls' = Step(c, Idle, "read_none", id)
          ELSE /\ ret' = ret
               /\ calls' = Step(c, [calls.at[c] EXCEPT !.pc = "read_store",
                                                       !.doc = mongo_profile.doc],
                                "read_fetch", id)
    /\ budget' = budget - 1
    /\ UNCHANGED <<mongodb, neo4j, redis, up, cassandra, mon>>

\* query_engine.py:54-58  the fetched document is written to the cache; the
\* read goes on to its sections and returns.
read_store(c) ==
    /\ budget > 0
    /\ calls.at[c].pc = "read_store"
    /\ LET id == calls.at[c].id
           mongo_profile == calls.at[c].doc
       IN /\ redis' = cache_researcher_profile(redis, up.redis, id, mongo_profile)
          /\ ret' = ProfileResult(id, "miss", mongo_profile)
          /\ calls' = Step(c, Idle, "read_store", id)
    /\ budget' = budget - 1
    /\ UNCHANGED <<mongodb, neo4j, up, cassandra, mon>>

\* database_manager.py:120  update: the document-store write.
update_write(c, id, f) ==
    /\ budget > 0
    /\ Connected
    /\ calls.at[c].pc = "idle"
    /\ mongodb' = update_researcher(mongodb, up.mongodb, id, f)
    /\ calls' = Step(c, [Idle EXCEPT !.pc = "update_mirror", !.id = id, !.f = f,
                                     !.ok = UpdateMatches(mongodb, up.mongodb, id)],
                     "update_write", id)
    /\ budget' = budget - 1
    /\ UNCHANGED <<neo4j, redis, up, cassandra, ret, mon>>

\* database_manager.py:123  update: the graph-store write.
update_mirror(c) ==
    /\ budget > 0
    /\ calls.at[c].pc = "update_mirror"
    /\ neo4j' = update_researcher_node(neo4j, up.neo4j, calls.at[c].id, calls.at[c].f)
    /\ calls' = Step(c, [calls.at[c] EXCEPT !.pc = "update_invalidate"],
                     "update_mirror", calls.at[c].id)
    /\ budget' = budget - 1
    /\ UNCHANGED <<mongodb, redis, up, cassandra, ret, mon>>

\* database_manager.py:125-144  update: the cache step, then the return.
update_invalidate(c) ==
    /\ budget > 0
    /\ calls.at[c].pc = "update_invalidate"
    /\ LET id == calls.at[c].id
           f == calls.at[c].f
       IN /\ redis' = UpdateCache(redis, up.redis, id, f)
          /\ ret' = [NoRet EXCEPT !.op = "update", !.id = id, !.f = f, !.up = up,
                        !.ok = calls.at[c].ok, !.wrote = calls.at[c].ok]
          /\ calls' = Step(c, Idle, "update_invalidate", id)
    /\ budget' = budget - 1
    /\ UNCHANGED <<mongodb, neo4j, up, cassandra, mon>>

\* database_manager.py:189  delete: the document-store delete.
delete_write(c, id) ==
    /\ budget > 0
    /\ Connected
    /\ calls.at[c].pc = "idle"
    /\ mongodb' = delete_researcher(mongodb, up.mongodb, id)
    /\ calls' = Step(c, [Idle EXCEPT !.pc = "delete_mirror", !.id = id,
                                     !.ok = DeleteMatches(mongodb, up.mongodb, id)],
                     "delete_write", id)
    /\ budget' = budget - 1
    /\ UNCHANGED <<neo4j, redis, up, cassandra, ret, mon>>

\* database_manager.py:192  delete: the graph-store delete.
delete_mirror(c) ==
    /\ budget > 0
    /\ calls.at[c].pc = "delete_mirror"
    /\ neo4j' = delete_researcher_node(neo4j, up.neo4j, calls.at[c].id)
    /\ calls' = Step(c, [calls.at[c] EXCEPT !.pc = "delete_invalidate"],
                     "delete_mirror", calls.at[c].id)
    /\ budget' = budget - 1
    /\ UNCHANGED <<mongodb, redis, up, cassandra, ret, mon>>

\* Faulty variant: the delete returns without invalidating the cache.
delete_invalidate_skipped(c) ==
    /\ budget > 0
    /\ calls.at[c].pc = "delete_invalidate"
    /\ LET id == calls.at[c].id
       IN /\ ret' = [NoRet EXCEPT !.op = "delete", !.id = id, !.up = up,
                        !.ok = calls.at[c].ok, !.wrote = calls.at[c].ok]
          /\ calls' = Step(c, Idle, "delete_invalidate", id)
    /\ budget' = budget - 1
    /\ UNCHANGED <<mongodb, neo4j, redis, up, cassandra, mon>>

\* database_manager.py:195-198  delete: the cache invalidation, then the return.
delete_invalidate(c) ==
    /\ budget > 0
    /\ calls.at[c].pc = "delete_invalidate"
    /\ LET id == calls.at[c].id
       IN /\ redis' = invalidate_researcher_cache(redis, up.redis, id)
          /\ ret' = [NoRet EXCEPT !.op = "delete", !.id = id, !.up = up,
                        !.ok = calls.at[c].ok, !.wrote = calls.at[c].ok]
          /\ calls' = Step(c, Idle, "delete_invalidate", id)
    /\ budget' = budget - 1
    /\ UNCHANGED <<mongodb, neo4j, up, cassandra, mon>>

\* database_manager.py:264  add_collaboration: the one graph statement
\* (neo4j_repo.py:137-156), run in a transaction of its own.
add_statement(c, id1, id2) ==
    /\ budget > 0
    /\ id1 # id2
    /\ calls.at[c].pc = "idle"
    /\ up.neo4j => Cardinality(FreeHandles(neo4j)) >= MergeNeeds(neo4j, id1, id2)
    /\ neo4j' = add_collaboration(neo4j, up.neo4j, id1, id2)
    /\ calls' = Step(c, [Idle EXCEPT !.pc = "add_invalidate", !.id = id1, !.id2 = id2,
                                     !.ok = up.neo4j],
                     "add_statement", id1)
    /\ budget' = budget - 1
    /\ UNCHANGED <<mongodb, redis, up, cassandra, ret, mon>>

\* database_manager.py:274-279  add_collaboration: both invalidations, then
\* the return.
add_invalidate(c) ==
    /\ budget > 0
    /\ calls.at[c].pc = "add_invalidate"
    /\ LET id1 == calls.at[c].id
           id2 == calls.at[c].id2
       IN /\ redis' = invalidate_researcher_cache(
                          invalidate_researcher_cache(redis, up.redis, id1), up.redis, id2)
          /\ ret' = [NoRet EXCEPT !.op = "add_collaboration", !.id = id1, !.id2 = id2,
                        !.up = up, !.ok = calls.at[c].ok]
          /\ calls' = Step(c, Idle, "add_invalidate", id1)
    /\ budget' = budget - 1
    /\ UNCHANGED <<mongodb, neo4j, up, cassandra, mon>>

\* The process running caller c's call stops between two steps: the steps
\* the call had left are never made and nothing is returned.
crash(c) ==
    /\ budget > 0
    /\ calls.at[c].pc # "idle"
    /\ calls' = Step(c, Idle, "crash", calls.at[c].id)
    /\ budget' = budget - 1
    /\ UNCHANGED <<mongodb, neo4j, redis, up, cassandra, ret, mon>>

Next ==
    \/ \E e \in Entities, sid \in SuppliedIds \cup {NoId} : create_researcher_comprehensive(e, sid)
    \/ \E id \in Ids, f \in UpdateInputs : update_researcher_comprehensive(id, f)
    \/ \E id \in Ids : delete_researcher_comprehensive(id)
    \/ \E id \in Ids : get_researcher_profile_complete(id)
    \/ \E id1 \in Ids, id2 \in Ids : add_collaboration_comprehensive(id1, id2)
    \/ \E id \in Ids : expire_profile(id)
    \/ \E id \in Ids : expire_stats(id)
    \/ \E s \in Stores : store_fails(s)
    \/ \E s \in Stores : store_recovers(s)
    \/ \E p \in DOMAIN PubCatalog : create_publication_comprehensive(p)
    \/ \E j \in DOMAIN ProjCatalog : create_project_comprehensive(j)

Spec == Init /\ [][Next]_vars

\* Histories in which the graph store is unreachable from the first operation on.
InitGraphDown ==
    /\ Stored
    /\ up = [s \in Stores |-> s # "neo4j"]
    /\ cassandra = "session"
    /\ calls = NoCalls
    /\ budget = MaxDownSteps

NextGraphDown ==
    \/ \E e \in Entities, sid \in SuppliedIds \cup {NoId} : create_researcher_comprehensive(e, sid)
    \/ \E id \in Ids, f \in UpdateInputs : update_researcher_comprehensive(id, f)
    \/ \E id \in Ids : delete_researcher_comprehensive(id)
    \/ \E id \in Ids : get_researcher_profile_complete(id)
    \/ \E id1 \in Ids, id2 \in Ids : add_collaboration_comprehensive(id1, id2)
    \/ \E p \in DOMAIN PubCatalog : create_publication_comprehensive(p)
    \/ \E j \in DOMAIN ProjCatalog : create_project_comprehensive(j)

SpecGraphDown == InitGraphDown /\ [][NextGraphDown]_vars

\* Histories of the profile sub-sections: collaborations, publications and
\* projects come and go around reads, while stores fail and recover.
InitSections ==
    /\ Stored
    /\ up = [s \in Stores |-> TRUE]
    /\ cassandra = "session"
    /\ calls = NoCalls
    /\ budget = MaxSectionSteps

NextSections ==
    \/ \E sid \in SuppliedIds \cup {NoId} : create_researcher_comprehensive(EntityFull, sid)
    \/ \E id \in Ids : get_researcher_profile_complete(id)
    \/ \E id1 \in Ids, id2 \in Ids : add_collaboration_comprehensive(id1, id2)
    \/ \E id1 \in Ids, id2 \in Ids : remove_collaborator(id1, id2)
    \/ \E p \in DOMAIN PubCatalog : create_publication_comprehensive(p)
    \/ \E p \in DOMAIN PubCatalog : delete_publication_comprehensive(p)
    \/ \E j \in DOMAIN ProjCatalog : create_project_comprehensive(j)
    \/ \E j \in DOMAIN ProjCatalog : delete_project_comprehensive(j)
    \/ \E s \in Stores : store_fails(s)
    \/ \E s \in Stores : store_recovers(s)

SpecSections == InitSections /\ [][NextSections]_vars

\* Histories in which the analytics store is unavailable when connect_all runs.
InitAnalyticsDown ==
    /\ Stored
    /\ up = [s \in Stores |-> TRUE]
    /\ cassandra = "not_connected"
    /\ calls = NoCalls
    /\ budget = MaxAnalyticsSteps

NextAnalyticsDown ==
    \/ \E outcome \in ConnectOutcomes \ {"session"} : connect_all(outcome)
    \/ \E e \in Entities, sid \in SuppliedIds \cup {NoId} : create_researcher_comprehensive(e, sid)
    \/ \E id \in Ids, f \in UpdateInputs : update_researcher_comprehensive(id, f)
    \/ \E id \in Ids : delete_researcher_comprehensive(id)
    \/ \E id \in Ids : get_researcher_profile_complete(id)
    \/ \E d \in {"v1", "v2"} : get_department_analytics(d)

SpecAnalyticsDown == InitAnalyticsDown /\ [][NextAnalyticsDown]_vars

\* Searches over a document-store snapshot: up to two researchers with an
\* h-index each, the legacy record or not.
SearchDocs == {StampMetadata(EntityFull), StampMetadata([EntityFull EXCEPT !["h_index"] = "v2"])}
InitSearch ==
    /\ \E S \in SUBSET UuidIds, lg \in LegacyDocs :
          mongodb \in {[researchers |-> r, legacy |-> lg, publications |-> {}, projects |-> {}] :
                          r \in [S -> SearchDocs]}
    /\ neo4j = [nodes |-> EmptyMap, edges |-> EmptyMap]
    /\ redis = [profile |-> EmptyMap, stats |-> EmptyMap]
    /\ ret = NoRet
    /\ mon = [x \in Ids |-> NoMon]
    /\ up = [s \in Stores |-> TRUE]
    /\ cassandra = "session"
    /\ calls = NoCalls
    /\ budget = MaxSearchSteps

NextSearch ==
    \/ \E cr \in Criteria, cursor \in UNION {Orders(S) : S \in SUBSET Ids} :
          search_researchers_advanced(cr, cursor)
    \/ \E id \in Ids : update_researcher_comprehensive(id, MetricsUpdate("v2"))

SpecSearch == InitSearch /\ [][NextSearch]_vars

\* One update of researcher u1 by caller c1 and reads of u1 by caller c2, step
\* by step, after u1 was created: its profile entry is still cached or has
\* expired.
RaceId == "u1"
RaceUpdates == {DotUpdate("position", "v2"), MetricsUpdate("v2")}
Created ==
    LET m == CreateMirrors([nodes |-> EmptyMap, edges |-> EmptyMap],
                           [profile |-> EmptyMap, stats |-> EmptyMap],
                           [s \in Stores |-> TRUE], EntityFull, RaceId)
    IN /\ mongodb = [researchers |-> [x \in {RaceId} |-> StampMetadata(EntityFull)],
                     legacy |-> EmptyMap, publications |-> {}, projects |-> {}]
       /\ neo4j = m.neo4j
       /\ redis \in {m.redis, [m.redis EXCEPT !.profile = EmptyMap]}
       /\ ret = NoRet
       /\ mon = [x \in Ids |-> NoMon]
       /\ up = [s \in Stores |-> TRUE]
       /\ cassandra = "session"
       /\ calls = NoCalls
InitStale ==
    /\ Created
    /\ budget = MaxRaceSteps

NextStale ==
    \/ \E f \in RaceUpdates : update_write("c1", RaceId, f)
    \/ update_mirror("c1")
    \/ update_invalidate("c1")
    \/ read_lookup("c2", RaceId)
    \/ read_fetch("c2")
    \/ read_store("c2")

SpecStale == InitStale /\ [][NextStale]_vars

\* add_collaboration calls on the pair {u1, u2} by two callers, step by step,
\* among creates of researchers with a caller-supplied _id.
AddPairs == {<<"u1", "u2">>, <<"u2", "u1">>}
InitAdds ==
    /\ Stored
    /\ up = [s \in Stores |-> TRUE]
    /\ cassandra = "session"
    /\ calls = NoCalls
    /\ budget = MaxAddSteps

NextAdds ==
    \/ \E c \in Callers, p \in AddPairs : add_statement(c, p[1], p[2])
    \/ \E c \in Callers : add_invalidate(c)
    \/ \E sid \in SuppliedIds : create_researcher_comprehensive(EntityFull, sid)

SpecAdds == InitAdds /\ [][NextAdds]_vars

\* An update of u1 by caller c1 that stops after its document-store write
\* (or after its graph write), among whole reads, updates, deletes,
\* add_collaboration calls and the expiry of u1's profile entry; u1 was
\* created and its profile entry is cached.
InitCrash ==
    /\ Created
    /\ RaceId \in DOMAIN redis.profile
    /\ budget = MaxCrashSteps

NextCrash ==
    \/ \E f \in RaceUpdates : update_write("c1", RaceId, f)
    \/ update_mirror("c1")
    \/ crash("c1")
    \/ get_researcher_profile_complete(RaceId)
    \/ \E f \in RaceUpdates : update_researcher_comprehensive(RaceId, f)
    \/ delete_researcher_comprehensive(RaceId)
    \/ \E p \in AddPairs : add_collaboration_comprehensive(p[1], p[2])
    \/ expire_profile(RaceId)

SpecCrash == InitCrash /\ [][NextCrash]_vars


\* Searches with numeric range bounds over a document-store snapshot: up to
\* two researchers, each with an h-index and a publication total of 1 or 2.
RangeBounds == {NoBound, 0, 1, 2}
RangeCriteria ==
    {[department |-> "", sort_by |-> "collaboration_metrics.h_index", sort_order |-> -1,
      limit |-> SearchLimit, range |-> r] :
        r \in [min_h_index : RangeBounds, max_h_index : RangeBounds,
               min_publications : RangeBounds, max_publications : RangeBounds]}
RangeDocs ==
    {StampMetadata([EntityFull EXCEPT !["h_index"] = h, !["total_publications"] = t]) :
        h \in {"v1", "v2"}, t \in {"v1", "v2"}}
InitRanges ==
    /\ \E S \in SUBSET UuidIds :
          mongodb \in {[researchers |-> r, legacy |-> EmptyMap, publications |-> {},
                        projects |-> {}] : r \in [S -> RangeDocs]}
    /\ neo4j = [nodes |-> EmptyMap, edges |-> EmptyMap]
    /\ redis = [profile |-> EmptyMap, stats |-> EmptyMap]
    /\ ret = NoRet
    /\ mon = [x \in Ids |-> NoMon]
    /\ up = [s \in Stores |-> TRUE]
    /\ cassandra = "session"
    /\ calls = NoCalls
    /\ budget = MaxRangeSteps

NextRanges ==
    \E cr \in RangeCriteria, cursor \in UNION {Orders(S) : S \in SUBSET Ids} :
        search_researchers_advanced(cr, cursor)

SpecRanges == InitRanges /\ [][NextRanges]_vars


\* Sorted searches over the same snapshots, whose researchers differ in
\* h-index and in publication total.
SortCriteria ==
    [department : {""},
     sort_by : {"h_index", "publication_count"},
     sort_order : {-1, 1},
     limit : {1, SearchLimit},
     range : {NoRange}]
InitSort ==
    /\ \E S \in SUBSET UuidIds :
          mongodb \in {[researchers |-> r, legacy |-> EmptyMap, publications |-> {},
                        projects |-> {}] : r \in [S -> RangeDocs]}
    /\ neo4j = [nodes |-> EmptyMap, edges |-> EmptyMap]
    /\ redis = [profile |-> EmptyMap, stats |-> EmptyMap]
    /\ ret = NoRet
    /\ mon = [x \in Ids |-> NoMon]
    /\ up = [s \in Stores |-> TRUE]
    /\ cassandra = "session"
    /\ calls = NoCalls
    /\ budget = MaxSortSteps

NextSort ==
    \E cr \in SortCriteria, cursor \in UNION {Orders(S) : S \in SUBSET Ids} :
        search_researchers_advanced(cr, cursor)

SpecSort == InitSort /\ [][NextSort]_vars


\* One delete of researcher u1 by caller c1 and reads of u1 by caller c2, step
\* by step, after u1 was created.
InitDeleteRace ==
    /\ Created
    /\ budget = MaxRaceSteps

NextDeleteRace ==
    \/ delete_write("c1", RaceId)
    \/ delete_mirror("c1")
    \/ delete_invalidate("c1")
    \/ read_lookup("c2", RaceId)
    \/ read_fetch("c2")
    \/ read_store("c2")

SpecDeleteRace == InitDeleteRace /\ [][NextDeleteRace]_vars


\* Whole operations one after another, every store reachable throughout.
InitSequential ==
    /\ Stored
    /\ up = [s \in Stores |-> TRUE]
    /\ cassandra = "session"
    /\ calls = NoCalls
    /\ budget = MaxSequentialSteps

NextSequential ==
    \/ \E e \in Entities, sid \in SuppliedIds \cup {NoId} : create_researcher_comprehensive(e, sid)
    \/ \E id \in Ids, f \in UpdateInputs : update_researcher_comprehensive(id, f)
    \/ \E id \in Ids : delete_researcher_comprehensive(id)
    \/ \E id1 \in Ids, id2 \in Ids : add_collaboration_comprehensive(id1, id2)
    \/ \E id \in Ids : get_researcher_profile_complete(id)

SpecSequential == InitSequential /\ [][NextSequential]_vars


\* ================================================================ properties
\* The profile fields a read returns show the update f: a dot-path key gives
\* its leaf the new value, a nested key gives its whole section the new dict.
ReflectsUpdate(data, f) ==
    \A l \in BaseLeaves :
        /\ f.dot[l] # Absent => data[l] = f.dot[l]
        /\ (f.dot[l] = Absent /\ SectionOf(l) \in f.sections) => data[l] = f.nested[l]

\* C1  Cache invalidation (P2): with every store reachable and nothing else
\* happening to X in between, once a read has cached X's fields and
\* update(X, f) has completed on an X the document store holds, the next read
\* of X reports "miss" and returns the new value of every field in f, and the
\* read after that reports "hit" with the same values.
C1_CacheInvalidation ==
    \A x \in Ids :
        (ret.op = "read" /\ ret.id = x /\ mon[x].ph \in {"read1", "read2"}) =>
            /\ ret.cache_status = (IF mon[x].ph = "read1" THEN "miss" ELSE "hit")
            /\ ReflectsUpdate(ret.data, mon[x].f)

\* C2  Read-after-write (P1): after create(e) returned X with every store
\* reachable, the first read of X returns the basic_info, academic_profile,
\* research_interests and collaboration_metrics of e, with cache_status "hit".
C2_ReadAfterWrite ==
    \A x \in Ids :
        (ret.op = "read" /\ ret.id = x /\ mon[x].ph = "first") =>
            /\ ret.ok
            /\ ret.cache_status = "hit"
            /\ ret.data = Profile(mon[x].e)

\* A first read after a create of an entity with every section.
C2_Witness ==
    \E x \in Ids :
        /\ ret.op = "read" /\ ret.id = x /\ mon[x].ph = "first"
        /\ ret.cache_status = "hit"
        /\ mon[x].e = EntityFull
        /\ ret.data = Profile(EntityFull)

\* C3  Delete then read (P3, first half): for every X a read could find, every
\* read of X after delete(X) completed returns the not-found error, until X is
\* created again.
C3_DeleteThenRead ==
    \A x \in Ids :
        (ret.op = "read" /\ ret.id = x /\ mon[x].gone = "deleted") =>
            /\ ~ret.ok
            /\ ret.error = "Researcher not found"

\* The graph holds no node with identifier x, no relationship with a deleted
\* end, and no collaborator list names x.
GraphForgot(g, x) ==
    /\ NodesWithId(g, x) = {}
    /\ \A k \in DOMAIN g.edges : k \subseteq DOMAIN g.nodes
    /\ \A y \in Ids \ {x} : \A r \in PathRows(g, y) : r.id # x

\* C4 as stated  Delete cascades in the graph (P3, second half): after
\* delete(X) completes the graph store holds no node X and no edge incident to
\* it, so no collaborator list of another researcher contains X.
C4_DeleteCascades ==
    ret.op = "delete" => GraphForgot(neo4j, ret.id)

\* C4 amended  The same, for a delete during which the graph store is reachable.
C4_DeleteCascadesWhenReachable ==
    (ret.op = "delete" /\ ret.up.neo4j) => GraphForgot(neo4j, ret.id)

\* A delete of a researcher that another researcher listed as a collaborator.
C4_Witness ==
    /\ ret.op = "delete" /\ ret.up.neo4j
    /\ ret.listed # {}
    /\ GraphForgot(neo4j, ret.id)

\* C5  Idempotent delete (P4): delete(X) never raises and returns true exactly
\* when the document store removed a record for X; on an X without a record,
\* and on a second delete right after a successful one, it returns false.
C5_IdempotentDelete ==
    [][\A x \in Ids :
          (ret'.op = "delete" /\ ret'.id = x /\ delete_researcher_comprehensive(x)) =>
              /\ ~ret'.raised
              /\ ret'.ok <=> (x \in DOMAIN mongodb.researchers /\ x \notin DOMAIN mongodb'.researchers)
              /\ x \notin DOMAIN mongodb.researchers => ~ret'.ok
              /\ mon[x].ph = "deleted" => ~ret'.ok]_vars

\* A delete that returned false right after a delete that removed the record.
C5_Witness ==
    \E x \in Ids :
        /\ ret.op = "delete" /\ ret.id = x /\ ~ret.ok /\ ~ret.raised
        /\ mon[x].ph = "redeleted"

\* C6 as stated  Update invalidates all cache entries: after update(X, f), for
\* every f, neither researcher_profile:X nor researcher_stats:X is in the cache.
C6_UpdateInvalidatesAll ==
    ret.op = "update" =>
        /\ ret.id \notin DOMAIN redis.profile
        /\ ret.id \notin DOMAIN redis.stats

\* The statistics an update carries in a nested collaboration_metrics block.
CarriedStats(f) ==
    {k \in StatFields : "collaboration_metrics" \in f.sections /\ f.nested[StatLeaf(k)] # Absent}

\* C6 amended  After update(X, f) with the cache store reachable,
\* researcher_profile:X is absent; researcher_stats:X is absent unless f has a
\* nested collaboration_metrics block naming total_publications, h_index or
\* collaboration_score, and then it holds exactly those fields, as strings.
C6_UpdateInvalidatesProfile ==
    [][\A x \in Ids, f \in UpdateInputs :
          (/\ ret'.op = "update" /\ ret'.id = x /\ ret'.f = f /\ up.redis
           /\ update_researcher_comprehensive(x, f)) =>
              /\ x \notin DOMAIN redis'.profile
              /\ CarriedStats(f) = {} => x \notin DOMAIN redis'.stats
              /\ CarriedStats(f) # {} =>
                    /\ x \in DOMAIN redis'.stats
                    /\ \A k \in StatFields :
                          redis'.stats[x][k] =
                              (IF k \in CarriedStats(f) THEN Str(f.nested[StatLeaf(k)]) ELSE Absent)]_vars

\* An update that carried statistics, over a cached profile and statistics hash.
C6_Witness ==
    /\ ret.op = "update" /\ ret.ok /\ ret.up.redis
    /\ CarriedStats(ret.f) # {}
    /\ ret.id \notin DOMAIN redis.profile
    /\ ret.id \in DOMAIN redis.stats
    /\ redis.stats[ret.id]["publications_count"] = Absent

\* C7  Update mirrors the graph subset: after update(X, f) completed on an
\* existing X with the graph store reachable, f in dot-path form, each of
\* name, email, department, position, h-index and publication count that f
\* changed has on the graph node X the value it has in the document store.
C7_UpdateMirrorsGraph ==
    (ret.op = "update" /\ ret.ok /\ ret.up.neo4j /\ IsDotForm(ret.f)) =>
        \A h \in NodesWithId(neo4j, ret.id), p \in NodeProps :
            ret.f.dot[LeafOfProp(p)] # Absent =>
                neo4j.nodes[h][p] = mongodb.researchers[ret.id][LeafOfProp(p)]

\* C8  Create aborts on primary failure: when the insert of create(e) fails
\* (document store unreachable, or the supplied _id already there), the error
\* is raised and neither the graph store nor the cache store changes.
C8_CreateAborts ==
    [][\A e \in Entities, sid \in SuppliedIds \cup {NoId} :
          (/\ ret'.op = "create" /\ (sid = NoId \/ ret'.id = sid)
           /\ ~up.mongodb \/ sid \in DOMAIN mongodb.researchers
           /\ create_researcher_comprehensive(e, sid)) =>
              /\ ret'.raised /\ ~ret'.ok
              /\ neo4j' = neo4j
              /\ redis' = redis
              /\ mongodb' = mongodb]_vars

\* A create that raised on an _id the reachable document store already holds.
C8_Witness ==
    /\ ret.op = "create" /\ ret.raised /\ ~ret.wrote
    /\ ret.up.mongodb /\ ret.up.neo4j /\ ret.up.redis
    /\ ret.id \in DOMAIN mongodb.researchers

\* C9  The document-store result is authoritative: whenever the document-store
\* step of create / update / delete succeeds, the operation reports success
\* (create returns the identifier, update and delete return true), for every
\* entity the document store accepts; update returns false exactly when the
\* document store touched no record.
C9_DocumentStoreAuthoritative ==
    ret.op \in {"create", "update", "delete"} =>
        /\ ret.wrote => (ret.ok /\ ~ret.raised)
        /\ (ret.op = "update" /\ ~ret.wrote) => ~ret.ok

C11_CacheAsideStatus ==
    [][\A x \in Ids :
          get_researcher_profile_complete(x) =>
              /\ ret'.cache_status = (IF x \in DOMAIN redis.profile THEN "hit" ELSE "miss")
              /\ (x \notin DOMAIN redis.profile /\ HasDocument(mongodb, x)) =>
                     (x \in DOMAIN redis'.profile
                        /\ redis'.profile[x] = JsonRoundTrip(DocumentOf(mongodb, x)))
              /\ mon[x].again # "no" => ret'.cache_status = "hit"]_vars

\* C11 (as the code has it)  With the cache store reachable, a read of X that
\* returns a profile reports "hit" exactly when a full-profile entry for X
\* exists at the lookup and "miss" otherwise; such a miss writes the document
\* (as JSON) into the cache; of two consecutive reads of X with no write or
\* expiry between them, the first returning a profile with the cache store
\* reachable, the second reports "hit" whenever the cache store is reachable.
\* A read that finds neither entry nor document reports no cache status; with
\* the cache store unreachable a read that returns a profile reports "miss".
C11_CacheAsideWhenReachable ==
    [][/\ \A x \in Ids :
          (ret'.op = "read" /\ ret'.id = x /\ up.redis /\ get_researcher_profile_complete(x)) =>
              /\ ret'.ok =>
                    ret'.cache_status = (IF x \in DOMAIN redis.profile THEN "hit" ELSE "miss")
              /\ (ret'.ok /\ x \notin DOMAIN redis.profile) =>
                     (/\ HasDocument(mongodb, x)
                      /\ x \in DOMAIN redis'.profile
                      /\ redis'.profile[x] = JsonRoundTrip(DocumentOf(mongodb, x)))
              /\ ~ret'.ok => (ret'.cache_status = "" /\ redis' = redis)
              /\ mon[x].again = "cached" => (ret'.ok /\ ret'.cache_status = "hit")
       /\ \A x \in Ids :
          (ret'.op = "read" /\ ret'.id = x /\ ~up.redis /\ get_researcher_profile_complete(x)) =>
              /\ ret'.ok => ret'.cache_status = "miss"
              /\ redis' = redis]_vars

\* The second of two consecutive reads of X, the first of which missed the
\* cache and stored the document: it reports "hit".
C11_Witness ==
    /\ ret.op = "read" /\ ret.ok /\ ret.cache_status = "hit"
    /\ ret.id \in DOMAIN mongodb.legacy
    /\ ret.id \in DOMAIN redis.profile
    /\ mon[ret.id].ph = "cached" /\ mon[ret.id].again = "cached"
    /\ budget = MaxSteps - 2

\* C12  Sub-sections are never cached: on every read of X, hit or miss, the
\* collaborator list equals the graph store's traversal result at the time of
\* the call and the publication and project lists equal the document store's
\* content at the time of the call; a collaboration, publication or project
\* added or removed after the profile was cached shows in the very next read.
C12_SectionsNeverCached ==
    [][\A x \in Ids :
          (ret'.op = "read" /\ ret'.id = x /\ ret'.ok /\ get_researcher_profile_complete(x)) =>
              /\ ret'.cache_status \in {"hit", "miss"}
              /\ ret'.collaborators = PathRows(neo4j, x)
              /\ ret'.publications = {p \in mongodb.publications : x \in PubCatalog[p].authors}
              /\ ret'.projects = {j \in mongodb.projects : x \in ProjCatalog[j].participants}]_vars

\* C12 (as the code has it)  On every read of X that returns a profile, hit or
\* miss, the collaborator list is the graph store's traversal result at the
\* time of the call when the graph store is reachable and empty when it is
\* not; the publication and project lists are the document store's content
\* at the time of the call when the document store is reachable and empty
\* when it is not. No list comes from the cache.
C12_SectionsFromReachableStores ==
    [][\A x \in Ids :
          (ret'.op = "read" /\ ret'.id = x /\ ret'.ok /\ get_researcher_profile_complete(x)) =>
              /\ ret'.cache_status \in {"hit", "miss"}
              /\ ret'.collaborators = (IF up.neo4j THEN PathRows(neo4j, x) ELSE {})
              /\ ret'.publications =
                    (IF up.mongodb
                     THEN {p \in mongodb.publications : x \in PubCatalog[p].authors} ELSE {})
              /\ ret'.projects =
                    (IF up.mongodb
                     THEN {j \in mongodb.projects : x \in ProjCatalog[j].participants} ELSE {})]_vars

\* A read served from the cache after a publication or project naming the
\* researcher was removed: the lists it returns are empty.
C12_Witness ==
    /\ ret.op = "read" /\ ret.ok /\ ret.cache_status = "hit"
    /\ ret.up.mongodb
    /\ mon[ret.id].changed = "removed"
    /\ ret.publications = {} /\ ret.projects = {}

\* C13  Not-found is a value: a read never lets an exception escape; for an X
\* with no cache entry and no document it returns an error condition with the
\* message "Researcher not found" and writes nothing to the cache.
C13_NotFoundIsAValue ==
    [][\A x \in Ids :
          (ret'.op = "read" /\ ret'.id = x /\ get_researcher_profile_complete(x)) =>
              /\ ~ret'.raised
              /\ (x \notin DOMAIN redis.profile /\ ~HasDocument(mongodb, x)) =>
                    /\ ~ret'.ok
                    /\ ret'.error = "Researcher not found"
                    /\ ret'.data = EmptyDoc
                    /\ redis' = redis]_vars

\* A read, with every store reachable, of an identifier that has neither a
\* cache entry nor a document.
C13_Witness ==
    /\ ret.op = "read" /\ ~ret.ok /\ ret.error = "Researcher not found"
    /\ \A s \in Stores : ret.up[s]
    /\ ret.id \in Ids
    /\ ret.id \notin DOMAIN redis.profile /\ ~HasDocument(mongodb, ret.id)

\* C14  Connection failure is not not-found: when the document store is
\* unreachable during a read of X that misses the cache, the caller gets an
\* error carrying the underlying message, distinguishable from the not-found
\* condition returned when the document store is reachable and has no record.
C14_ConnectionFailureIsNotNotFound ==
    (ret.op = "read" /\ ~ret.up.mongodb /\ ret.cache_status # "hit") =>
        /\ ~ret.ok
        /\ ret.error \notin {"", "Researcher not found"}

\* C15  Legacy identifiers are tolerated at the document-store boundary: a
\* record whose stored _id is a legacy ObjectId is resolved by get, by update
\* and by delete when addressed by its 24-character hexadecimal string, so
\* update and delete return true for it and a read after the delete finds
\* no document.
C15_LegacyIdentifiersTolerated ==
    [][\A x \in Ids :
          (LooksLikeObjectId(x) /\ x \in DOMAIN mongodb.legacy /\ up.mongodb) =>
              /\ get_researcher(mongodb, up.mongodb, x).found
              /\ \A f \in UpdateInputs : update_researcher_comprehensive(x, f) => ret'.ok
              /\ delete_researcher_comprehensive(x) =>
                    (ret'.ok /\ ~HasDocument(mongodb', x))]_vars

\* The CO_AUTHORED_WITH relationships between a node with id a and one with id b.
EdgesBetween(g, a, b) ==
    {k \in DOMAIN g.edges : \E x \in NodesWithId(g, a), y \in NodesWithId(g, b) : k = {x, y}}

\* C16  Collaboration strength counts calls: after n successful
\* add_collaboration calls on the unordered pair {R1, R2}, in either argument
\* order and with no remove or delete between them, there is exactly one
\* CO_AUTHORED_WITH edge between them and its strength is n. Step by step:
\* a successful call on a pair with no edge leaves one edge of strength 1, and
\* a successful call on a pair with one edge of strength n leaves that one
\* edge with strength n + 1; no call leaves a pair with several edges.
C16_StrengthCountsCalls ==
    [][\A a \in Ids, b \in Ids :
          (add_collaboration_comprehensive(a, b) /\ ret'.ok) =>
              LET before == EdgesBetween(neo4j, a, b)
                  after == EdgesBetween(neo4j', b, a)
              IN /\ Cardinality(after) = 1
                 /\ \A k \in after :
                        neo4j'.edges[k] = (IF k \in before THEN neo4j.edges[k] + 1 ELSE 1)]_vars

\* The researchers other than x within two CO_AUTHORED_WITH hops of x.
WithinTwoHops(g, x) ==
    LET Adj(a, b) == EdgesBetween(g, a, b) # {}
    IN {y \in Ids \ {x} : Adj(x, y) \/ \E z \in Ids : Adj(x, z) /\ Adj(z, y)}
Min(a, b) == IF a <= b THEN a ELSE b

\* C17  collaboration_count counts distinct collaborators: in every read of X
\* that returns a profile, collaboration_count (the length of the
\* collaborators list) equals the number of distinct researchers other than X
\* reachable from X over CO_AUTHORED_WITH edges within 2 hops (capped at 20),
\* whatever the strengths and the shape of the graph, and each such
\* researcher appears once in the list.
C17_CountsDistinctCollaborators ==
    (ret.op = "read" /\ ret.ok /\ ret.up.neo4j) =>
        /\ Cardinality(ret.collaborators)
              = Min(Cardinality(WithinTwoHops(neo4j, ret.id)), CollaboratorLimit)
        /\ \A y \in WithinTwoHops(neo4j, ret.id) :
              Cardinality({r \in ret.collaborators : r.id = y}) = 1

\* C18  The REST read endpoint maps not-found to 404: GET /researchers/{id}
\* answers 404 whenever the query engine's profile result carries an error
\* (the researcher does not exist, including after it was deleted), and 200
\* with the profile otherwise.
C18_NotFoundIs404 ==
    ret.op = "read" => ret.status = (IF ret.error # "" THEN 404 ELSE 200)

\* C19  The analytics store is a soft dependency: when it is unavailable,
\* connect_all still returns True provided the document, graph and cache
\* stores connect, no later update, delete or read of a researcher raises,
\* and the department analytics read completes without an error, its time
\* series being empty.
C19_AnalyticsSoftDependency ==
    /\ ret.op = "connect_all" => ret.ok
    /\ ret.op \in {"update", "delete", "read"} => ~ret.raised
    /\ (ret.op = "department_analytics" /\ cassandra \in {"no_session", "none"}) =>
            (ret.ok /\ ret.error = "" /\ ret.time_series = {})

\* C20  Search determinism (P5): for a fixed document-store snapshot and fixed
\* criteria including sort_by, sort_order and limit, two calls of
\* search_researchers_advanced return the same researchers in the same order.
C20_SearchDeterminism ==
    [][\A cr \in Criteria :
          (/\ ret.op = "search" /\ ret.criteria = cr
           /\ \E cursor \in UNION {Orders(S) : S \in SUBSET Ids} :
                 search_researchers_advanced(cr, cursor)) =>
              ret'.result = ret.result]_vars

\* The store accesses at positions i < j < k < l of the log are: a read's
\* document fetch of x, an update's document write of x, that update's cache
\* step, and the cache write of the same read.
RacedRead(x) ==
    \E i, j, k, l \in DOMAIN calls.log :
        /\ i < j /\ j < k /\ k < l
        /\ calls.log[i].step = "read_fetch" /\ calls.log[i].id = x
        /\ calls.log[j].step = "update_write" /\ calls.log[j].id = x
        /\ calls.log[k].step = "update_invalidate" /\ calls.log[k].who = calls.log[j].who
        /\ calls.log[l].step = "read_store" /\ calls.log[l].who = calls.log[i].who
        /\ \A n \in (i + 1)..(l - 1) : calls.log[n].who # calls.log[i].who
        /\ \A n \in (j + 1)..(k - 1) :
              calls.log[n].who = calls.log[j].who => calls.log[n].step = "update_mirror"

\* C21  Stale repopulation race: with one update of X and reads of X
\* interleaved and no call left in progress, a read that returned as a "hit"
\* data differing from X's document is served from an entry that a read
\* fetched before the update's document write and cached after the update's
\* invalidation; that interleaving is reachable, no lock preventing it.
C21_StaleRepopulation ==
    ( /\ \A c \in Callers : calls.at[c].pc = "idle"
      /\ ret.op = "read" /\ ret.id = RaceId /\ ret.cache_status = "hit"
      /\ ret.data # Profile(DocumentOf(mongodb, RaceId)) )
        => RacedRead(RaceId)

\* The update and the read have both completed, the document store holds the
\* update's value, the cache entry holds the data from before the update, and
\* a later read has returned that old data as a hit.
C21_Witness ==
    /\ \A c \in Callers : calls.at[c].pc = "idle"
    /\ \E f \in RaceUpdates :
          /\ DocumentOf(mongodb, RaceId) = MongoSet(StampMetadata(EntityFull), f)
          /\ Profile(DocumentOf(mongodb, RaceId)) # Profile(EntityFull)
    /\ RaceId \in DOMAIN redis.profile
    /\ Profile(redis.profile[RaceId]) = Profile(EntityFull)
    /\ ret.op = "read" /\ ret.id = RaceId /\ ret.cache_status = "hit"
    /\ ret.data = Profile(EntityFull)

\* The add_collaboration statements run so far.
AddsRun == {n \in DOMAIN calls.log : calls.log[n].step = "add_statement"}

\* C22  Concurrent collaboration adds lose no increment: when k
\* add_collaboration calls on the pair {u1, u2} have run, overlapping or not,
\* each as one atomic graph statement, and all of them have completed, there
\* is exactly one CO_AUTHORED_WITH edge between u1 and u2 and its strength
\* has grown (from no edge) by exactly k.
C22_ConcurrentAddsLoseNothing ==
    ( /\ \A c \in Callers : calls.at[c].pc = "idle"
      /\ AddsRun # {} )
        => /\ Cardinality(EdgesBetween(neo4j, "u1", "u2")) = 1
           /\ \A e \in EdgesBetween(neo4j, "u1", "u2") :
                 neo4j.edges[e] = Cardinality(AddsRun)

\* An update has stopped between its document-store write and its cache step.
CrashedUpdate ==
    \E n \in DOMAIN calls.log :
        /\ calls.log[n].step = "crash"
        /\ \E m \in 1..(n - 1) :
              calls.log[m].step = "update_write" /\ calls.log[m].who = calls.log[n].who

\* C23 as stated: after an update of X stopped between its document write
\* and its cache invalidation, a read of X that finds no profile entry (the
\* old one expired, or a later update, delete or add_collaboration
\* invalidated it) is a "miss" that returns the document store's current value.
C23_RecoveryAfterCrash ==
    [][(/\ CrashedUpdate
        /\ RaceId \notin DOMAIN redis.profile
        /\ ret'.op = "read" /\ ret'.id = RaceId
        /\ get_researcher_profile_complete(RaceId))
          => /\ ret'.cache_status = "miss"
             /\ HasDocument(mongodb, RaceId)
             /\ ret'.data = Profile(DocumentOf(mongodb, RaceId))]_vars

\* C23 amended: after such a stopped update, (1) a read of X returns data
\* other than the document's only as a hit on the profile entry that is still
\* cached; (2) the expiry of that entry and every later completed update,
\* delete or add_collaboration on X leave no profile entry for X; (3) a read
\* of X that finds no profile entry is a "miss" returning the document
\* store's current value, or returns not-found when the record was deleted.
C23_RecoveryUnlessDeleted ==
    [][CrashedUpdate =>
        /\ (/\ ret'.op = "read" /\ ret'.id = RaceId
            /\ get_researcher_profile_complete(RaceId))
              => /\ (ret'.ok /\ (~HasDocument(mongodb, RaceId)
                                   \/ ret'.data # Profile(DocumentOf(mongodb, RaceId))))
                       => /\ ret'.cache_status = "hit"
                          /\ RaceId \in DOMAIN redis.profile
                          /\ ret'.data = Profile(redis.profile[RaceId])
                 /\ RaceId \notin DOMAIN redis.profile
                       => IF HasDocument(mongodb, RaceId)
                          THEN /\ ret'.cache_status = "miss"
                               /\ ret'.data = Profile(DocumentOf(mongodb, RaceId))
                          ELSE ~ret'.ok /\ ret'.error = "Researcher not found"
        /\ (/\ ret'.op \in {"update", "delete", "add_collaboration"}
            /\ \/ \E f \in RaceUpdates : update_researcher_comprehensive(RaceId, f)
               \/ delete_researcher_comprehensive(RaceId)
               \/ \E p \in AddPairs : add_collaboration_comprehensive(p[1], p[2]))
              => RaceId \notin DOMAIN redis'.profile
        /\ (ret' = ret /\ expire_profile(RaceId)) => RaceId \notin DOMAIN redis'.profile]_vars

\* The update stopped after its document write, the old entry has gone, and a
\* read then returned the updated document as a miss.
C23_Witness ==
    /\ CrashedUpdate
    /\ calls.at["c1"].pc = "idle"
    /\ ret.op = "read" /\ ret.id = RaceId /\ ret.cache_status = "miss"
    /\ HasDocument(mongodb, RaceId)
    /\ ret.data = Profile(DocumentOf(mongodb, RaceId))
    /\ ret.data # Profile(EntityFull)

\* The metric value v is within the bounds given (a bound other than NoBound
\* is given, 0 included).
Within(v, min, max) ==
    /\ min # NoBound => (v # Absent /\ Rank(v) >= min)
    /\ max # NoBound => (v # Absent /\ Rank(v) <= max)

\* C24  Numeric range filters: for every non-negative integer bound given in
\* the criteria, a bound of 0 included, the researchers a search returns
\* (the limit exceeding the number of records) are exactly those with
\* h_index >= min_h_index and <= max_h_index and total_publications >=
\* min_publications and <= max_publications.
C24_NumericRangeFilters ==
    (ret.op = "search" /\ ret.criteria \in RangeCriteria) =>
        {ret.result[i] : i \in DOMAIN ret.result} =
            {x \in DOMAIN mongodb.researchers :
                /\ Within(mongodb.researchers[x]["h_index"],
                          ret.criteria.range.min_h_index, ret.criteria.range.max_h_index)
                /\ Within(mongodb.researchers[x]["total_publications"],
                          ret.criteria.range.min_publications,
                          ret.criteria.range.max_publications)}

\* The metric of researcher x that sort_by names: h_index is the researcher's
\* h-index, publication_count the researcher's publication total.
MetricOf(db, x, sort_by) ==
    IF sort_by = "h_index" THEN Rank(DocumentOf(db, x)["h_index"])
    ELSE Rank(DocumentOf(db, x)["total_publications"])

\* C25  Client-side sort then limit: for sort_by h_index or publication_count
\* a search returns the first `limit` of the matched researchers ordered by
\* that metric of the researcher, descending when sort_order is negative and
\* ascending otherwise: the result lists min(limit, matches) distinct matched
\* researchers, in metric order, and no researcher left out comes before a
\* listed one in that order.
C25_SortThenLimit ==
    (ret.op = "search" /\ ret.criteria \in SortCriteria) =>
        LET cr == ret.criteria
            res == ret.result
            listed == {res[i] : i \in DOMAIN res}
            matched == SearchMatches(mongodb, TRUE, cr)
            m(x) == MetricOf(mongodb, x, cr.sort_by)
            NotAfter(x, y) == IF cr.sort_order < 0 THEN m(x) >= m(y) ELSE m(x) <= m(y)
        IN /\ Len(res) = Min(cr.limit, Cardinality(matched))
           /\ Cardinality(listed) = Len(res)
           /\ listed \subseteq matched
           /\ \A i, j \in DOMAIN res : i < j => NotAfter(res[i], res[j])
           /\ \A x \in listed, y \in matched \ listed : NotAfter(x, y)

\* C26  Delete under a concurrent read: in every interleaving of a delete of
\* X with reads of X, once the delete has completed and no call is left in
\* progress, no full-profile cache entry for X exists (so a read started
\* afterwards finds neither entry nor record and returns not-found).
C26_DeleteUnderConcurrentRead ==
    ( /\ \A c \in Callers : calls.at[c].pc = "idle"
      /\ \E n \in DOMAIN calls.log : calls.log[n].step = "delete_invalidate" )
        => RaceId \notin DOMAIN redis.profile

\* The store accesses at positions i < j < k < l of the log are: a read's
\* document fetch of x, a delete's document-store delete of x, that delete's
\* cache invalidation, and the cache write of the same read.
RacedDelete(x) ==
    \E i, j, k, l \in DOMAIN calls.log :
        /\ i < j /\ j < k /\ k < l
        /\ calls.log[i].step = "read_fetch" /\ calls.log[i].id = x
        /\ calls.log[j].step = "delete_write" /\ calls.log[j].id = x
        /\ calls.log[k].step = "delete_invalidate" /\ calls.log[k].who = calls.log[j].who
        /\ calls.log[l].step = "read_store" /\ calls.log[l].who = calls.log[i].who
        /\ \A n \in (i + 1)..(l - 1) : calls.log[n].who # calls.log[i].who
        /\ \A n \in (j + 1)..(k - 1) :
              calls.log[n].who = calls.log[j].who => calls.log[n].step = "delete_mirror"

\* C26 amended: once the delete of X has completed and no call is left in
\* progress, a full-profile cache entry for X exists only when a read fetched
\* the document before the delete removed it and wrote the cache after the
\* delete's invalidation; otherwise none exists. A read in such a state
\* returns the cached data as a "hit" when the entry exists.
C26_EntryOnlyFromRacingRead ==
    ( /\ \A c \in Callers : calls.at[c].pc = "idle"
      /\ \E n \in DOMAIN calls.log : calls.log[n].step = "delete_invalidate" )
        => /\ RaceId \in DOMAIN redis.profile => RacedDelete(RaceId)
           /\ (ret.op = "read" /\ ret.ok) =>
                 /\ RaceId \in DOMAIN redis.profile
                 /\ ret.data = Profile(redis.profile[RaceId])
           /\ (ret.op = "read" /\ ~ret.ok) => RaceId \notin DOMAIN redis.profile

\* The delete and the racing read have completed, the record is gone, the
\* cache holds the deleted researcher's profile, and a later read has returned
\* it as a hit.
C26_Witness ==
    /\ \A c \in Callers : calls.at[c].pc = "idle"
    /\ \E n \in DOMAIN calls.log : calls.log[n].step = "delete_invalidate"
    /\ ~HasDocument(mongodb, RaceId)
    /\ RaceId \in DOMAIN redis.profile
    /\ ret.op = "read" /\ ret.id = RaceId /\ ret.cache_status = "hit"
    /\ ret.data = Profile(EntityFull)

\* C27  Cache coherence invariant: in every state reached by non-overlapping
\* Create, Update, Delete, add_collaboration and Read operations with no
\* store failure, whenever a full-profile cache entry for X exists, the
\* document store holds a record for X and the cached base fields (basic
\* info, academic profile, research interests, collaboration metrics) equal
\* that record's current values.
C27_CacheCoherence ==
    \A x \in DOMAIN redis.profile :
        /\ HasDocument(mongodb, x)
        /\ Profile(redis.profile[x]) = Profile(DocumentOf(mongodb, x))

\* C28  One graph node per identifier: after any sequence of creates (with or
\* without a caller-supplied _id), add_collaboration calls and deletes, the
\* graph store holds at most one Researcher node for any identifier value.
C28_OneNodePerIdentifier ==
    \A x \in Ids : Cardinality(NodesWithId(neo4j, x)) <= 1

\* C29  Graph nodes mirror documents: in every state reached by Create,
\* Update, Delete and add_collaboration operations with no store failure,
\* every Researcher node in the graph store has a researcher record with the
\* same identifier in the document store.
C29_NodesMirrorDocuments ==
    \A h \in DOMAIN neo4j.nodes : HasDocument(mongodb, neo4j.nodes[h].id)

\* C30  No secondary effect without a primary effect: whenever an update or a
\* delete of X returns false (the document store changed no record, X being
\* absent or the store unreachable), the graph store is unchanged: node X
\* keeps its properties and edges.
C30_NoSecondaryWithoutPrimary ==
    [][\A x \in Ids :
          (/\ ret'.op \in {"update", "delete"} /\ ret'.id = x /\ ~ret'.ok
           /\ \/ delete_researcher_comprehensive(x)
              \/ \E f \in UpdateInputs : update_researcher_comprehensive(x, f))
            => neo4j' = neo4j]_vars

====
